---- MODULE Spec2Model ----
(***************************************************************************)
(* Model of libunicode's column-width scanner (src/libunicode/scan.cpp),   *)
(* its ASCII prescan kernel (scan_simd_impl.hpp, intrinsics.h) and the     *)
(* two-stage table builder of the UCD loader                               *)
(* (codepoint_properties_loader.cpp).                                      *)
(*                                                                         *)
(* Pointers into the scanned text are byte offsets into one stream B; the  *)
(* chunks handed to consecutive scan_text calls are consecutive slices of  *)
(* B, which is what gives `start - state.utf8.currentLength` and the       *)
(* carried state.next a meaning.                                           *)
(***************************************************************************)
EXTENDS Integers, Sequences, FiniteSets, TLC

VARIABLES
    B,        \* scanner: the byte stream the caller feeds, chunk by chunk
    state,    \* scanner: the caller-owned scan_state
    calls,    \* scanner: the scan_text calls made so far, with what each emitted
    ascii,    \* prescan: the slice, the limit and the kernels' results
    loader,   \* loader: _codepoints, _output and the position of the build
    ucd       \* loader: _codepoints and the files read while load() runs

vars == <<B, state, calls, ascii, loader, ucd>>

\* ------------------------------------------------------------------ bounds

\* Longest input, counted in fragments of Fragments.
MaxTokens == 3
\* Largest max_columns a caller passes.
MaxCols == 3
\* Longest run of printable bytes in front of a prescanned slice.
MaxPrefix == 66
\* Number of blocks of the codepoint range the loader's model covers (the
\* program covers 0x110000 / block_size).
NumBlocks == 3
\* Most lines of the emoji-data.txt the loader reads.
MaxLines == 2

\* ------------------------------------------------------------ byte helpers

Max(a, b) == IF a >= b THEN a ELSE b
Min(a, b) == IF a <= b THEN a ELSE b

RECURSIVE Flatten(_)
Flatten(ss) == IF ss = <<>> THEN <<>> ELSE Head(ss) \o Flatten(Tail(ss))

\* The byte at offset p of the stream (offsets count from 0).
ByteAt(p) == B[p + 1]

is_control(ch) == ch < 32

\* static_cast<uint8_t>(ch) & 0x80
is_complex(ch) == ch >= 128

\* --------------------------------------------------------- UTF-8 decoder

Utf8Init == [expectedLength |-> 0, currentLength |-> 0, character |-> 0]

\* RFC 3629 well-formedness of a completed sequence of n bytes.
ValidScalar(cp, n) ==
    /\ cp <= 1114111
    /\ ~(cp >= 55296 /\ cp <= 57343)
    /\ (n = 2 => cp >= 128)
    /\ (n = 3 => cp >= 2048)
    /\ (n = 4 => cp >= 65536)

\* One byte through the streaming decoder: the new decoder state and the
\* outcome (Incomplete, Success with the codepoint, Invalid).
from_utf8(u, value) ==
    IF u.expectedLength = 0
    THEN CASE value < 128 ->
                [state |-> Utf8Init, kind |-> "Success", value |-> value]
           [] value \div 32 = 6 ->
                [state |-> [expectedLength |-> 2, currentLength |-> 1,
                            character |-> value % 32],
                 kind |-> "Incomplete", value |-> 0]
           [] value \div 16 = 14 ->
                [state |-> [expectedLength |-> 3, currentLength |-> 1,
                            character |-> value % 16],
                 kind |-> "Incomplete", value |-> 0]
           [] value \div 8 = 30 ->
                [state |-> [expectedLength |-> 4, currentLength |-> 1,
                            character |-> value % 8],
                 kind |-> "Incomplete", value |-> 0]
           [] OTHER ->
                [state |-> Utf8Init, kind |-> "Invalid", value |-> 0]
    ELSE IF value \div 64 # 2
         THEN [state |-> Utf8Init, kind |-> "Invalid", value |-> 0]
         ELSE LET cp == (u.character * 64) + (value % 64)
                  n  == u.currentLength + 1
              IN  IF n < u.expectedLength
                  THEN [state |-> [u EXCEPT !.currentLength = n, !.character = cp],
                        kind |-> "Incomplete", value |-> 0]
                  ELSE IF ValidScalar(cp, u.expectedLength)
                       THEN [state |-> Utf8Init, kind |-> "Success", value |-> cp]
                       ELSE [state |-> Utf8Init, kind |-> "Invalid", value |-> 0]

\* ------------------------------------------------- width and segmentation

InRange(cp, lo, hi) == lo <= cp /\ cp <= hi

\* Grapheme_Cluster_Break of the codepoints the model decodes.
gcb(cp) ==
    CASE cp = 13 -> "CR"
      [] cp = 10 -> "LF"
      [] cp < 32 \/ InRange(cp, 127, 159) -> "Control"
      [] cp = 8205 -> "ZWJ"
      [] InRange(cp, 768, 879) \/ InRange(cp, 65024, 65039) \/ cp = 8204 -> "Extend"
      [] InRange(cp, 127462, 127487) -> "Regional_Indicator"
      [] OTHER -> "Other"

ExtendedPictographic(cp) == InRange(cp, 127744, 129535)

\* East Asian Width Wide or Fullwidth.
WideOrFullwidth(cp) ==
    \/ InRange(cp, 4352, 4447)
    \/ InRange(cp, 11904, 12350)
    \/ InRange(cp, 12353, 19903)
    \/ InRange(cp, 19968, 40959)
    \/ InRange(cp, 44032, 55203)
    \/ InRange(cp, 63744, 64255)
    \/ InRange(cp, 65072, 65103)
    \/ InRange(cp, 65280, 65376)
    \/ InRange(cp, 127744, 128591)

width(cp) ==
    CASE gcb(cp) \in {"CR", "LF", "Control"} -> 0
      [] gcb(cp) \in {"Extend", "ZWJ"} -> 0
      [] WideOrFullwidth(cp) -> 2
      [] OTHER -> 1

\* grapheme_segmenter::breakable(prev, next): UAX #29 on one pair.
breakable(prev, next) ==
    LET a == gcb(prev)
        b == gcb(next)
    IN  CASE a = "CR" /\ b = "LF" -> FALSE
          [] a \in {"CR", "LF", "Control"} -> TRUE
          [] b \in {"CR", "LF", "Control"} -> TRUE
          [] b \in {"Extend", "ZWJ"} -> FALSE
          [] a = "ZWJ" /\ ExtendedPictographic(next) -> FALSE
          [] a = "Regional_Indicator" /\ b = "Regional_Indicator" -> FALSE
          [] OTHER -> TRUE

\* ------------------------------------------------------------ ASCII prescan

\* The lanes of a vector of simd_size bytes; lane i of a vector loaded at
\* offset p holds the byte at p + i.
Lanes(simd_size) == 0 .. (simd_size - 1)

\* An unsigned per-byte compare with 0x20.
less_unsigned(p, simd_size) ==
    {i \in 0 .. (simd_size - 1) : ByteAt(p + i) < 32}

\* intrinsics<W>::less(batch, vec_control): the signed per-byte compare with
\* 0x20, as a mask of lanes. A byte of 0x80 and above is a negative char.
less(p, simd_size) ==
    {i \in Lanes(simd_size) : ByteAt(p + i) < 32 \/ ByteAt(p + i) >= 128}

\* The movemask of the 32-bit (128, 256) or 8-bit (512) lane compare of
\* and_vec(batch, vec_complex) with vec_complex.
cmpeq_mask(p, SimdBitWidth) ==
    LET simd_size == SimdBitWidth \div 8
    IN  IF SimdBitWidth = 512
        THEN {i \in Lanes(simd_size) : ByteAt(p + i) >= 128}
        ELSE {i \in Lanes(simd_size) :
                \A j \in 0 .. 3 : ByteAt(p + ((i \div 4) * 4) + j) >= 128}

\* intrinsics<W>::equal: the movemask compared with 0xFFFF (128, 256) or
\* 0xFFFFFFFF (512); a bool.
equal(p, SimdBitWidth) ==
    cmpeq_mask(p, SimdBitWidth) = (IF SimdBitWidth = 512 THEN 0 .. 31 ELSE 0 .. 15)

\* intrinsics<W>::or_mask(is_control_mask, is_complex_mask): the bool converts
\* to 1, which is bit 0 of the mask.
or_mask(mask, flag) == mask \cup (IF flag THEN {0} ELSE {})

\* trailing_zero_count of a non-zero mask.
trailing_zero_count(mask) == CHOOSE i \in mask : \A j \in mask : i <= j

\* What one iteration adds to input when the vector holds no hit.
VectorAdvance(simd_size) == 4

\* The vector loop of scan_for_text_ascii_simd: the offset it leaves input at.
RECURSIVE vector_loop(_, _, _)
vector_loop(input, end, SimdBitWidth) ==
    LET simd_size == SimdBitWidth \div 8
    IN  IF ~(input < end - simd_size)
        THEN input
        ELSE LET ctrl_or_complex_mask ==
                     or_mask(less(input, simd_size), equal(input, SimdBitWidth))
             IN  IF ctrl_or_complex_mask # {}
                 THEN input + trailing_zero_count(ctrl_or_complex_mask)
                 ELSE vector_loop(input + VectorAdvance(simd_size), end, SimdBitWidth)

\* The offsets at which the vector loop of scan_for_text_ascii_simd loads a
\* vector, in the order of its iterations.
RECURSIVE vector_loads(_, _, _)
vector_loads(input, end, SimdBitWidth) ==
    LET simd_size == SimdBitWidth \div 8
    IN  IF ~(input < end - simd_size)
        THEN <<>>
        ELSE LET ctrl_or_complex_mask ==
                     or_mask(less(input, simd_size), equal(input, SimdBitWidth))
             IN  IF ctrl_or_complex_mask # {}
                 THEN <<input>>
                 ELSE <<input>>
                          \o vector_loads(input + VectorAdvance(simd_size), end, SimdBitWidth)

\* is_ascii without its test for control bytes.
is_ascii_or_control(ch) == ~is_complex(ch)

is_ascii(ch) == ~is_control(ch) /\ ~is_complex(ch)

\* The scalar tail loop: while (input != end && is_ascii(*input)) ++input.
RECURSIVE scalar_loop(_, _)
scalar_loop(input, end) ==
    IF input # end /\ is_ascii(ByteAt(input))
    THEN scalar_loop(input + 1, end)
    ELSE input

\* scan_for_text_ascii_simd<SimdBitWidth>(text, maxColumnCount) on the slice
\* [lo, hi) of the stream.
scan_for_text_ascii_simd(SimdBitWidth, lo, hi, maxColumnCount) ==
    LET end == lo + Min(hi - lo, maxColumnCount)
    IN  scalar_loop(vector_loop(lo, end, SimdBitWidth), end) - lo

\* detail::scan_for_text_ascii: the 128-bit kernel unless the CPU has more.
scan_for_text_ascii(lo, hi, maxColumnCount) ==
    scan_for_text_ascii_simd(128, lo, hi, maxColumnCount)

\* ----------------------------------------------- scan_for_text_nonascii

NULL == -1

\* The running values of one scan_for_text_nonascii call: the decoder state
\* and hint it updates in place, its locals, what it told the receiver (log),
\* and three notes the properties read: cpStart, the offset of the first byte
\* of the codepoint being decoded; openStart, the offset of the first byte of
\* the cluster opened last in this call; and rollback, the start of the
\* cluster that did not fit when the call left through a budget exit.
NonAsciiStart(st, start, log) ==
    [utf8 |-> st.utf8,
     lastCodepointHint |-> st.lastCodepointHint,
     log |-> log,
     count |-> 0,
     input |-> start,
     clusterStart |-> start,
     lastCodepointStart |-> start,
     byteCount |-> 0,
     currentClusterWidth |-> 0,
     resultEnd |-> IF st.utf8.expectedLength # 0
                   THEN start - st.utf8.currentLength ELSE start,
     cpStart |-> IF st.utf8.expectedLength # 0
                 THEN start - st.utf8.currentLength ELSE start,
     openStart |-> NULL,
     rollback |-> [kind |-> "none", at |-> NULL]]

ClusterCall(lo, n, w) == [kind |-> "cluster", lo |-> lo, hi |-> lo + n, width |-> w]
InvalidCall(lo, hi) == [kind |-> "invalid", lo |-> lo, hi |-> hi, width |-> 1]
AsciiCall(lo, n) == [kind |-> "ascii", lo |-> lo, hi |-> lo + n, width |-> n]

\* The Success branch: one decoded codepoint against the open cluster.
\* s already holds the advanced input and byteCount. The second field says
\* whether the loop was left (break).
OnSuccess(s, nextCodepoint, maxColumnCount) ==
    LET prevCodepoint == s.lastCodepointHint
        nextWidth == Max(s.currentClusterWidth, width(nextCodepoint))
        s1 == [s EXCEPT !.lastCodepointHint = nextCodepoint]
    IN  IF breakable(prevCodepoint, nextCodepoint)
        THEN LET count1 == s.count + s.currentClusterWidth
             IN  IF count1 + nextWidth > maxColumnCount
                 THEN <<[s1 EXCEPT !.count = count1,
                                   !.currentClusterWidth = 0,
                                   !.input = s.input - s.byteCount,
                                   !.rollback = [kind |-> "break", at |-> s.cpStart]],
                        TRUE>>
                 ELSE <<[s1 EXCEPT !.count = count1,
                                   !.log = Append(@, ClusterCall(s.clusterStart, s.byteCount,
                                                                 s.currentClusterWidth)),
                                   !.currentClusterWidth = nextWidth,
                                   !.clusterStart = s.lastCodepointStart,
                                   !.lastCodepointStart = s.input - s.byteCount,
                                   !.byteCount = 0,
                                   !.resultEnd = s.input,
                                   !.openStart = s.cpStart],
                        FALSE>>
        ELSE IF nextCodepoint = 65039 /\ s.count + 2 > maxColumnCount
             THEN <<[s1 EXCEPT !.resultEnd = s.input,
                               !.currentClusterWidth = 0,
                               !.input = s.clusterStart,
                               !.rollback = [kind |-> "vs16", at |-> s.openStart]],
                    TRUE>>
             ELSE <<[s1 EXCEPT !.resultEnd = s.input,
                               !.currentClusterWidth =
                                   IF nextCodepoint = 65039 THEN 2 ELSE @,
                               !.lastCodepointStart = s.input - s.byteCount],
                    FALSE>>

\* The interrupt branch with the reset of state.utf8 left out.
OnInterrupt_keep_pending(s) ==
    IF s.utf8.expectedLength # 0
    THEN [s EXCEPT !.count = @ + 1,
                   !.log = Append(@, InvalidCall(s.cpStart, s.input)),
                   !.lastCodepointHint = 0,
                   !.resultEnd = s.input]
    ELSE [s EXCEPT !.lastCodepointHint = 0, !.resultEnd = s.input]

\* The branch taken on a control or ASCII byte, which leaves the loop: a
\* pending sequence is reported invalid and dropped, the byte is not consumed.
OnInterrupt(s) ==
    IF s.utf8.expectedLength # 0
    THEN [s EXCEPT !.count = @ + 1,
                   !.log = Append(@, InvalidCall(s.cpStart, s.input)),
                   !.utf8 = Utf8Init,
                   !.lastCodepointHint = 0,
                   !.resultEnd = s.input]
    ELSE [s EXCEPT !.lastCodepointHint = 0, !.resultEnd = s.input]

\* One turn of the while loop of scan_for_text_nonascii on the running values
\* s: the values after the turn, and whether the loop was left.
nonascii_turn(s, end, maxColumnCount) ==
    IF ~(s.input # end /\ s.count <= maxColumnCount)
    THEN <<s, TRUE>>
    ELSE LET ch == ByteAt(s.input)
         IN  IF is_control(ch) \/ ~is_complex(ch)
             THEN <<OnInterrupt(s), TRUE>>
             ELSE LET r  == from_utf8(s.utf8, ch)
                      s1 == [s EXCEPT !.utf8 = r.state,
                                      !.input = @ + 1,
                                      !.byteCount = @ + 1,
                                      !.cpStart = IF s.utf8.expectedLength = 0
                                                  THEN s.input ELSE @]
                  IN  CASE r.kind = "Incomplete" -> <<s1, FALSE>>
                        [] r.kind = "Success" -> OnSuccess(s1, r.value, maxColumnCount)
                        [] OTHER ->
                             <<[s1 EXCEPT !.count = @ + 1,
                                          !.log = Append(@, InvalidCall(s1.cpStart, s.input + 1)),
                                          !.currentClusterWidth = 0,
                                          !.lastCodepointHint = 0,
                                          !.utf8 = [@ EXCEPT !.expectedLength = 0],
                                          !.byteCount = 0],
                               FALSE>>

\* The while loop of scan_for_text_nonascii, from the loop test on. (Each
\* turn's values are computed once, as the element of a one-element set.)
RECURSIVE nonascii_loop(_, _, _)
nonascii_loop(s, end, maxColumnCount) ==
    CHOOSE out \in { IF t[2] THEN t[1] ELSE nonascii_loop(t[1], end, maxColumnCount) :
                       t \in {nonascii_turn(s, end, maxColumnCount)} } : TRUE

\* What scan_for_text_nonascii returns from the values s0 it started with and
\* the values s its loop ended with.
nonascii_return(s0, s) ==
    [state |-> [utf8 |-> s.utf8,
                lastCodepointHint |-> s.lastCodepointHint,
                next |-> s.input],
     result |-> [count |-> s.count + s.currentClusterWidth,
                 start |-> s0.resultEnd,
                 end |-> s.resultEnd],
     log |-> s.log,
     rollback |-> s.rollback]

\* detail::scan_for_text_nonascii(state, text, maxColumnCount, receiver) on the
\* slice [start, end): the state it leaves, the scan_result it returns, the
\* receiver calls appended to log.
scan_for_text_nonascii(st, start, end, maxColumnCount, log) ==
    CHOOSE out \in { nonascii_return(s0, nonascii_loop(s0, end, maxColumnCount)) :
                       s0 \in {NonAsciiStart(st, start, log)} } : TRUE

\* ------------------------------------------------------------- scan_text

FreshState == [utf8 |-> Utf8Init, lastCodepointHint |-> 0, next |-> NULL]

\* What the properties keep of one scan_for_text_nonascii call made by
\* scan_text.
SubNote(sub, start, end, maxColumnCount) ==
    [start |-> start, end |-> end, max |-> maxColumnCount,
     result |-> sub.result, next |-> sub.state.next,
     rollback |-> sub.rollback, utf8 |-> sub.state.utf8]

\* One turn of the Trivial/Complex loop of scan_text on the running values c:
\* the values after the turn, and whether the function was left. c.text is
\* the offset the text view starts at; the view always ends at end. c.exit
\* says how the function was left: "return" from inside the loop, "end"
\* through the assertions after it.
scan_text_turn(c, end, maxColumnCount) ==
    IF ~(c.result.count < maxColumnCount /\ c.state.next # end)
    THEN <<[c EXCEPT !.exit = "end"], TRUE>>
    ELSE IF c.nextState = "Trivial"
    THEN LET count == scan_for_text_ascii(c.text, end, maxColumnCount - c.result.count)
         IN  IF count = 0
             THEN <<[c EXCEPT !.exit = "return"], TRUE>>
             ELSE <<[c EXCEPT !.log = Append(@, AsciiCall(c.text, count)),
                              !.result.count = @ + count,
                              !.state.next = @ + count,
                              !.result.end = @ + count,
                              !.nextState = "Complex",
                              !.text = @ + count],
                    FALSE>>
    ELSE CHOOSE out \in
           { IF sub.result.count = 0
             THEN <<[c EXCEPT !.state = sub.state,
                              !.log = sub.log,
                              !.subs = Append(@, SubNote(sub, c.text, end,
                                                         maxColumnCount - c.result.count)),
                              !.exit = "return"],
                    TRUE>>
             ELSE <<[c EXCEPT !.state = sub.state,
                              !.log = sub.log,
                              !.subs = Append(@, SubNote(sub, c.text, end,
                                                         maxColumnCount - c.result.count)),
                              !.nextState = "Trivial",
                              !.result.count = @ + sub.result.count,
                              !.result.end = sub.result.end,
                              !.text = @ + (sub.result.end - sub.result.start)],
                    FALSE>> :
             sub \in {scan_for_text_nonascii(c.state, c.text, end,
                                             maxColumnCount - c.result.count, c.log)} } : TRUE

\* The Trivial/Complex loop of scan_text, from the loop test on.
RECURSIVE scan_text_loop(_, _, _)
scan_text_loop(c, end, maxColumnCount) ==
    CHOOSE out \in { IF t[2] THEN t[1] ELSE scan_text_loop(t[1], end, maxColumnCount) :
                       t \in {scan_text_turn(c, end, maxColumnCount)} } : TRUE

\* scan_text up to its loop: the running values the loop starts with. With a
\* pending sequence in the state it first calls scan_for_text_nonascii on the
\* whole text.
scan_text_start(st, lo, hi, maxColumnCount) ==
    IF st.utf8.expectedLength # 0
    THEN CHOOSE out \in
           { [state |-> pre.state, result |-> pre.result, log |-> pre.log,
              subs |-> <<SubNote(pre, lo, hi, maxColumnCount)>>,
              text |-> pre.result.end, nextState |-> "Trivial", exit |-> "empty"] :
             pre \in {scan_for_text_nonascii(
                          [st EXCEPT !.next = IF @ = NULL THEN lo ELSE @],
                          lo, hi, maxColumnCount, <<>>)} } : TRUE
    ELSE [state |-> [st EXCEPT !.next = IF @ = NULL THEN lo ELSE @],
          result |-> [count |-> 0, start |-> lo, end |-> lo],
          log |-> <<>>, subs |-> <<>>,
          text |-> lo, nextState |-> "Trivial", exit |-> "empty"]

\* scan_text(state, text, maxColumnCount, receiver) on the slice [lo, hi).
scan_text(st, lo, hi, maxColumnCount) ==
    CHOOSE out \in
      { IF c0.text = hi
        THEN c0
        ELSE scan_text_loop(
                 [c0 EXCEPT !.nextState = IF is_complex(ByteAt(c0.text))
                                          THEN "Complex" ELSE "Trivial"],
                 hi, maxColumnCount) :
        c0 \in {scan_text_start(st, lo, hi, maxColumnCount)} } : TRUE

\* ------------------------------------------------------ the scanner's runs

\* Input fragments: a printable byte, a control byte, a narrow, a combining
\* (Extend), a wide codepoint, VS16, a stray continuation byte and a lead byte
\* whose sequence is cut short.
Fragments ==
    { <<65>>, <<10>>, <<195, 128>>, <<204, 128>>, <<227, 128, 128>>,
      <<239, 184, 143>>, <<128>>, <<195>> }

Inputs ==
    { Flatten(t) : t \in UNION { [1 .. n -> Fragments] : n \in 0 .. MaxTokens } }

Budgets == 0 .. MaxCols

Idle == <<>>

\* One finished scan_text call, as the caller and the receiver saw it.
CallNote(st, lo, hi, maxColumnCount) ==
    CHOOSE note \in
      { [lo |-> lo, hi |-> hi, max |-> maxColumnCount, before |-> st,
         result |-> c.result, log |-> c.log, subs |-> c.subs,
         exit |-> c.exit, after |-> c.state] :
        c \in {scan_text(st, lo, hi, maxColumnCount)} } : TRUE

Init ==
    /\ B \in Inputs
    /\ state = FreshState
    /\ calls = <<>>
    /\ ascii = Idle
    /\ loader = Idle
    /\ ucd = Idle

\* The caller scans the first chunk B[0..k) of the stream.
FirstCall(k, m) ==
    /\ calls = <<>>
    /\ \E note \in {CallNote(state, 0, k, m)} :
           /\ calls' = <<note>>
           /\ state' = note.after
    /\ UNCHANGED <<B, ascii, loader, ucd>>

\* The caller scans the rest of the stream with the same state.
SecondCall(m) ==
    /\ Len(calls) = 1
    /\ \E note \in {CallNote(state, calls[1].hi, Len(B), m)} :
           /\ calls' = Append(calls, note)
           /\ state' = note.after
    /\ UNCHANGED <<B, ascii, loader, ucd>>

Next ==
    \/ \E k \in 0 .. Len(B), m \in Budgets : FirstCall(k, m)
    \/ \E m \in Budgets : SecondCall(m)

Spec == Init /\ [][Next]_vars

\* ------------------------------------------------- the scanner's properties

RECURSIVE SumWidths(_)
SumWidths(log) == IF log = <<>> THEN 0 ELSE Head(log).width + SumWidths(Tail(log))

\* Whether the receiver calls of log, taken in order, tile the stream from
\* offset `from` without gap or overlap, and where they end (NULL if not).
RECURSIVE TileEnd(_, _)
TileEnd(log, from) ==
    IF log = <<>> THEN from
    ELSE IF Head(log).lo = from /\ Head(log).hi >= from
         THEN TileEnd(Tail(log), Head(log).hi)
         ELSE NULL

\* C1: the count a scan_text call returns is at most its max_columns.
C1_CountWithinBudget ==
    \A i \in DOMAIN calls : calls[i].result.count <= calls[i].max

\* C2: the count a scan_text call returns is the sum of what the call emitted:
\* the length of each ASCII run, the width argument of each cluster call and 1
\* for each invalid-sequence call.
C2_CountIsSumOfEmitted ==
    \A i \in DOMAIN calls : calls[i].result.count = SumWidths(calls[i].log)

\* C3: the slices of the receiver calls of one scan of a whole stream, in
\* callback order, do not overlap and concatenate to exactly B[0..end).
C3_SlicesTileConsumedPrefix ==
    (Len(calls) >= 1 /\ calls[1].hi = Len(B))
        => TileEnd(calls[1].log, 0) = calls[1].result.end

\* C4: scanning B[0..k) and then B[k..) with one state gives the receiver
\* calls and the cumulative count of one scan of B with a fresh state. The
\* three scans are given the same budget, and the case is taken only where
\* the single scan stays below it, no control byte stops a scan and the split
\* does not cut an ASCII run in two.
C4_StreamingEquivalence ==
    (/\ Len(calls) = 2
     /\ calls[1].max = calls[2].max
     /\ LET k == calls[1].hi
        IN  ~(k >= 1 /\ k < Len(B) /\ is_ascii(B[k]) /\ is_ascii(B[k + 1]))
     /\ \A p \in 1 .. Len(B) : ~is_control(B[p])
     )
        => \A whole \in {scan_text(FreshState, 0, Len(B), calls[1].max)} :
              whole.result.count < calls[1].max
                  => /\ calls[1].log \o calls[2].log = whole.log
                     /\ calls[1].result.count + calls[2].result.count
                           = whole.result.count

\* C5: when a codepoint that starts a new cluster does not fit the budget,
\* scan_for_text_nonascii returns with state.next at the first byte of that
\* cluster and no cluster call reaches into it.
C5_RollbackToClusterStart ==
    \A i \in DOMAIN calls : \A j \in DOMAIN calls[i].subs :
        LET sub == calls[i].subs[j]
        IN  sub.rollback.kind = "break"
                => /\ sub.next = sub.rollback.at
                   /\ \A e \in DOMAIN calls[i].log :
                          calls[i].log[e].kind = "cluster"
                              => calls[i].log[e].hi <= sub.rollback.at

\* The number of receiveInvalidGraphemeCluster calls in a log.
RECURSIVE InvalidCalls(_)
InvalidCalls(log) ==
    IF log = <<>> THEN 0
    ELSE (IF Head(log).kind = "invalid" THEN 1 ELSE 0) + InvalidCalls(Tail(log))

\* C11: a stray continuation byte met between codepoints (decoder outcome
\* Invalid) makes the scan of B[0..hi) differ from the scan of the bytes
\* before it by one more receiveInvalidGraphemeCluster call and one more
\* column, and leaves the decoder between codepoints with the hint at 0. The
\* case is taken where the bytes before hold no byte below 0x80, are scanned
\* to their end and leave room for one more column.
C11_InvalidChargesOneColumn ==
    \A i \in DOMAIN calls :
        LET c == calls[i]
        IN  (/\ c.before = FreshState
             /\ c.hi >= 1
             /\ ByteAt(c.hi - 1) = 128
             /\ \A p \in 0 .. (c.hi - 1) : is_complex(ByteAt(p)))
                => \A prior \in {scan_text(FreshState, 0, c.hi - 1, c.max)} :
                      (/\ prior.state.utf8.expectedLength = 0
                       /\ (c.hi > 1 => prior.state.next = c.hi - 1)
                       /\ prior.result.count + 1 <= c.max)
                          => /\ InvalidCalls(c.log) = InvalidCalls(prior.log) + 1
                             /\ c.result.count = prior.result.count + 1
                             /\ c.after.utf8.expectedLength = 0
                             /\ c.after.lastCodepointHint = 0

\* C12: when the first call's chunk ends inside a multi-byte sequence that the
\* rest of the stream completes, the first call makes no
\* receiveInvalidGraphemeCluster call, counts what the scan of the chunk
\* without the unfinished bytes counts, and returns with expectedLength # 0;
\* the two calls together count what one scan of the whole stream counts.
\* The case is taken where the stream holds no control byte and no malformed
\* sequence and the single scan consumes the whole stream and stays below the
\* budget all three scans get.
C12_PendingSequenceResumes ==
    (/\ Len(calls) = 2
     /\ calls[1].after.utf8.expectedLength # 0
     /\ calls[1].max = calls[2].max
     /\ \A p \in 1 .. Len(B) : ~is_control(B[p]))
        => \A whole \in {scan_text(FreshState, 0, Len(B), calls[1].max)} :
           \A head \in {scan_text(FreshState, 0,
                                  calls[1].hi - calls[1].after.utf8.currentLength,
                                  calls[1].max)} :
              (/\ InvalidCalls(whole.log) = 0
               /\ whole.state.utf8.expectedLength = 0
               /\ whole.state.next = Len(B)
               /\ whole.result.end = Len(B)
               /\ whole.result.count < calls[1].max)
                  => /\ InvalidCalls(calls[1].log) = 0
                     /\ calls[1].result.count = head.result.count
                     /\ calls[1].result.count + calls[2].result.count
                           = whole.result.count

\* What the claim expects of a scan that meets the byte at offset q, below
\* 0x80, while a sequence of pending bytes is unfinished: one invalid call
\* for the pending bytes and then, for a printable byte, an ASCII run that
\* starts with it.
InterruptLog(q, pending) ==
    <<InvalidCall(q - pending, q)>>
        \o (IF is_ascii(ByteAt(q)) THEN <<AsciiCall(q, 1)>> ELSE <<>>)

InterruptEnd(q) == IF is_ascii(ByteAt(q)) THEN q + 1 ELSE q

\* C13: a byte below 0x80 that ends a chunk and arrives while a sequence is
\* pending, whether the pending bytes lie in the same chunk or came with the
\* state from the call before, costs one receiveInvalidGraphemeCluster call
\* and one column, resets state.utf8 and is not consumed with the invalid
\* sequence: a control byte is left at state.next, a printable byte is
\* delivered as an ASCII run of its own. The case is taken where the budget
\* has room for the two columns.
C13_InterruptedSequence ==
    /\ \A i \in DOMAIN calls :
          LET c == calls[i]
              q == c.hi - 1
          IN  (/\ c.before = FreshState
               /\ q >= 1
               /\ ~is_complex(ByteAt(q)))
                  => \A prior \in {scan_text(FreshState, 0, q, c.max)} :
                        (/\ prior.state.utf8.expectedLength # 0
                         /\ prior.result.count + 2 <= c.max)
                            => /\ c.log = prior.log
                                     \o InterruptLog(q, prior.state.utf8.currentLength)
                               /\ c.result.count = prior.result.count + 1
                                     + (InterruptEnd(q) - q)
                               /\ c.after.utf8 = Utf8Init
                               /\ c.after.next = InterruptEnd(q)
                               /\ c.result.end = InterruptEnd(q)
    /\ (/\ Len(calls) = 2
        /\ calls[1].after.utf8.expectedLength # 0
        /\ calls[2].hi = calls[2].lo + 1
        /\ ~is_complex(ByteAt(calls[2].lo))
        /\ calls[2].max >= 2)
           => LET c == calls[2]
                  q == c.lo
              IN  /\ c.log = InterruptLog(q, calls[1].after.utf8.currentLength)
                  /\ c.result.count = 1 + (InterruptEnd(q) - q)
                  /\ c.after.utf8 = Utf8Init
                  /\ c.after.next = InterruptEnd(q)
                  /\ c.result.end = InterruptEnd(q)

\* C13 witness: the second call's chunk is one printable byte that arrived
\* while the lead byte of a two-byte sequence was pending from the first call,
\* and the call reported the invalid sequence and then the byte as a run.
C13_Witness ==
    /\ Len(calls) = 2
    /\ calls[1].after.utf8.expectedLength = 2
    /\ calls[1].after.utf8.currentLength = 1
    /\ calls[2].hi = calls[2].lo + 1
    /\ is_ascii(ByteAt(calls[2].lo))
    /\ calls[2].max >= 2
    /\ Len(calls[2].log) = 2
    /\ calls[2].log[1].kind = "invalid"
    /\ calls[2].log[2].kind = "ascii"

\* The receiver calls of the stream so far that carry a slice, in the order
\* they were made.
SliceCalls ==
    SelectSeq(Flatten([i \in DOMAIN calls |-> calls[i].log]),
              LAMBDA e : e.kind # "invalid")

\* C14: the slices the receiver is handed within one stream come in input
\* order: each ASCII run or cluster starts at or after the end of the slice
\* handed over before it.
C14_CallbacksInInputOrder ==
    \A e \in DOMAIN SliceCalls : \A f \in DOMAIN SliceCalls :
        e < f => SliceCalls[f].lo >= SliceCalls[e].hi

\* C15: the [start, end) a scan_text call returns is a prefix of the chunk it
\* was given, also when the call resumes a pending sequence: start is the
\* chunk's first byte, end lies within the chunk, and the bytes consumed
\* (state.next) are exactly those before end, unless the call returns with
\* the first bytes of an unfinished sequence held in the state.
C15_ResultIsPrefixOfChunk ==
    \A i \in DOMAIN calls :
        /\ calls[i].result.start = calls[i].lo
        /\ calls[i].lo <= calls[i].result.end
        /\ calls[i].result.end <= calls[i].hi
        /\ (calls[i].after.utf8.expectedLength = 0
               => calls[i].after.next = calls[i].result.end)

\* The codepoints of B[p..end) with the bytes each was decoded from; a
\* malformed sequence appears with the codepoint NULL.
RECURSIVE Decoded(_, _, _, _)
Decoded(p, end, u, lo) ==
    IF p = end THEN <<>>
    ELSE CHOOSE out \in
           { CASE r.kind = "Incomplete" -> Decoded(p + 1, end, r.state, lo)
               [] r.kind = "Success" ->
                    <<[lo |-> lo, hi |-> p + 1, cp |-> r.value]>>
                        \o Decoded(p + 1, end, Utf8Init, p + 1)
               [] OTHER ->
                    <<[lo |-> lo, hi |-> p + 1, cp |-> NULL]>>
                        \o Decoded(p + 1, end, Utf8Init, p + 1) :
             r \in {from_utf8(u, ByteAt(p))} } : TRUE

\* The indices of the codepoints that start a grapheme cluster.
ClusterStarts(cps) ==
    {i \in DOMAIN cps : i = 1 \/ breakable(cps[i - 1].cp, cps[i].cp)}

\* The index of the last codepoint of the cluster that starts at index i.
ClusterLast(cps, i) ==
    CHOOSE j \in i .. Len(cps) :
        /\ \A k \in (i + 1) .. j : k \notin ClusterStarts(cps)
        /\ (j = Len(cps) \/ (j + 1) \in ClusterStarts(cps))

\* The receiveGraphemeCluster calls the claim expects for the codepoints cps:
\* one per cluster, with the cluster's own bytes and the columns counted for
\* it (the width of its first codepoint, 2 once it holds VS16).
ExpectedClusters(cps) ==
    LET S == ClusterStarts(cps)
        nth(n) == CHOOSE i \in S : Cardinality({x \in S : x < i}) = n - 1
    IN  [n \in 1 .. Cardinality(S) |->
            LET i == nth(n)
                j == ClusterLast(cps, i)
            IN  ClusterCall(cps[i].lo, cps[j].hi - cps[i].lo,
                            IF \E k \in (i + 1) .. j : cps[k].cp = 65039
                            THEN 2 ELSE width(cps[i].cp))]

\* C16: one scan of a stream of well-formed non-ASCII codepoints that fits the
\* budget hands the receiver every grapheme cluster exactly once, in order,
\* each with its own bytes and the columns counted for it.
C16_ClustersDeliveredOnce ==
    \A i \in DOMAIN calls :
        LET c == calls[i]
        IN  (/\ c.before = FreshState
             /\ c.hi = Len(B)
             /\ Len(B) > 0
             /\ \A p \in 1 .. Len(B) : is_complex(B[p]))
                => \A cps \in {Decoded(0, Len(B), Utf8Init, 0)} :
                      (/\ cps # <<>>
                       /\ \A n \in DOMAIN cps : cps[n].cp # NULL
                       /\ cps[Len(cps)].hi = Len(B)
                       /\ SumWidths(ExpectedClusters(cps)) <= c.max)
                          => c.log = ExpectedClusters(cps)

\* C23: when a VS16 that continues the current cluster does not fit the
\* budget, scan_for_text_nonascii returns with state.next at the first byte of
\* the cluster that holds the VS16, with an end that does not lie past that
\* byte, and with the columns of the clusters before it only. The case is
\* taken in calls that start between codepoints.
C23_Vs16RollsBackToItsCluster ==
    \A i \in DOMAIN calls : \A j \in DOMAIN calls[i].subs :
        LET sub == calls[i].subs[j]
        IN  (/\ calls[i].before.utf8.expectedLength = 0
             /\ sub.rollback.kind = "vs16")
                => /\ sub.next = sub.rollback.at
                   /\ sub.result.end <= sub.rollback.at
                   /\ \A cps \in {Decoded(sub.start, sub.rollback.at, Utf8Init, sub.start)} :
                          (\A n \in DOMAIN cps : cps[n].cp # NULL)
                              => sub.result.count = SumWidths(ExpectedClusters(cps))

\* C25: the assertions of the scanner hold whenever they are reached: at the
\* end of every scan_for_text_nonascii call resultStart <= resultEnd, and in
\* every scan_text call that leaves its loop through the loop test
\* result.start <= result.end and result.end <= state.next.
C25_AssertionsHold ==
    \A i \in DOMAIN calls :
        /\ \A j \in DOMAIN calls[i].subs :
              calls[i].subs[j].result.start <= calls[i].subs[j].result.end
        /\ calls[i].exit = "end"
              => /\ calls[i].result.start <= calls[i].result.end
                 /\ calls[i].result.end <= calls[i].after.next

\* The columns of the cluster cps[i..j] by its own codepoints: 2 if it holds
\* VS16, else the largest width of its codepoints.
OwnColumns(cps, i, j) ==
    IF \E k \in i .. j : cps[k].cp = 65039
    THEN 2
    ELSE CHOOSE w \in {width(cps[k].cp) : k \in i .. j} :
             \A k \in i .. j : width(cps[k].cp) <= w

\* The sum of OwnColumns over the clusters of cps.
SumOwnColumns(cps) ==
    LET S == ClusterStarts(cps)
        nth(n) == CHOOSE i \in S : Cardinality({x \in S : x < i}) = n - 1
    IN  SumWidths([n \in 1 .. Cardinality(S) |->
                      [width |-> OwnColumns(cps, nth(n), ClusterLast(cps, nth(n)))]])

\* C26: the columns counted for a cluster depend on the cluster's own
\* codepoints only: one scan of a stream of well-formed non-ASCII codepoints
\* whose clusters fit the budget consumes the stream and counts, for each
\* cluster, 2 if it holds VS16 and else the largest width of its codepoints,
\* whatever the width of the cluster before it. The case is taken where the
\* stream starts with a codepoint that is not a combining one.
C26_ColumnsAreTheClustersOwn ==
    \A i \in DOMAIN calls :
        LET c == calls[i]
        IN  (/\ c.before = FreshState
             /\ c.hi = Len(B)
             /\ Len(B) > 0
             /\ \A p \in 1 .. Len(B) : is_complex(B[p]))
                => \A cps \in {Decoded(0, Len(B), Utf8Init, 0)} :
                      (/\ cps # <<>>
                       /\ \A n \in DOMAIN cps : cps[n].cp # NULL
                       /\ cps[Len(cps)].hi = Len(B)
                       /\ gcb(cps[1].cp) # "Extend"
                       /\ SumOwnColumns(cps) <= c.max)
                          => c.result.count = SumOwnColumns(cps)

\* C27: a budget rollback leaves the resumable state as it was before the
\* rolled-back cluster was decoded, so that a later call resumes as a scan
\* that had not seen the cluster: state.utf8 is between codepoints and
\* state.lastCodepointHint is the last codepoint in front of the rolled-back
\* cluster, or 0 if there is none. The case is taken in calls that start with
\* a fresh state and end with the rollback, over well-formed codepoints.
C27_RollbackRestoresState ==
    \A i \in DOMAIN calls :
        LET c == calls[i]
        IN  (/\ c.before = FreshState
             /\ c.subs # <<>>
             /\ c.subs[Len(c.subs)].rollback.kind # "none"
             /\ c.after.next = c.subs[Len(c.subs)].next)
                => \A sub \in {c.subs[Len(c.subs)]} :
                   \A cps \in {Decoded(sub.start, sub.rollback.at, Utf8Init, sub.start)} :
                      (\A n \in DOMAIN cps : cps[n].cp # NULL)
                          => /\ c.after.utf8 = Utf8Init
                             /\ c.after.lastCodepointHint
                                   = (IF cps = <<>> THEN 0 ELSE cps[Len(cps)].cp)

\* The offset of the first control byte of B[lo..hi), or hi if it holds none.
FirstControl(lo, hi) ==
    CHOOSE p \in lo .. hi :
        /\ \A q \in lo .. (p - 1) : ~is_control(ByteAt(q))
        /\ (p = hi \/ is_control(ByteAt(p)))

\* C28: scan_text never consumes a control byte: no slice handed to
\* receiveAsciiSequence or receiveGraphemeCluster holds one, result.end and
\* state.next do not move past the first control byte of the chunk, and a
\* call whose chunk starts with a control byte hands over no slice and counts
\* no column but the one of a pending sequence it reports invalid.
C28_ControlByteNotConsumed ==
    \A i \in DOMAIN calls :
        LET c == calls[i]
            p == FirstControl(c.lo, c.hi)
        IN  /\ \A e \in DOMAIN c.log :
                  c.log[e].kind # "invalid"
                      => \A q \in c.log[e].lo .. (c.log[e].hi - 1) : ~is_control(ByteAt(q))
            /\ c.result.end <= p
            /\ c.after.next <= p
            /\ (c.lo < c.hi /\ p = c.lo)
                  => /\ \A e \in DOMAIN c.log : c.log[e].kind = "invalid"
                     /\ c.result.count = InvalidCalls(c.log)
                     /\ c.result.count
                           = (IF c.before.utf8.expectedLength # 0 THEN 1 ELSE 0)

\* C28 witness: a call consumed printable bytes or a cluster and stopped in
\* front of a control byte that is followed by more input.
C28_Witness ==
    \E i \in DOMAIN calls :
        /\ calls[i].result.count >= 1
        /\ calls[i].result.end < calls[i].hi - 1
        /\ calls[i].result.count < calls[i].max
        /\ is_control(ByteAt(calls[i].result.end))
        /\ calls[i].after.next = calls[i].result.end

\* C29: every view scan_text forms lies inside the chunk of the current
\* call, also when the call resumes a pending sequence: the remaining-text
\* view built from the result of the resuming scan_for_text_nonascii call
\* starts at or after the chunk's first byte (so that text.front() is read
\* from inside the chunk), as does the view handed to every later
\* scan_for_text_nonascii call, and every slice handed to the receiver lies
\* within the chunk.
C29_ViewsStayInsideChunk ==
    \A i \in DOMAIN calls :
        LET c == calls[i]
        IN  /\ (c.before.utf8.expectedLength # 0 /\ c.subs # <<>>)
                  => c.subs[1].result.end >= c.lo
            /\ \A j \in DOMAIN c.subs :
                  c.subs[j].start >= c.lo /\ c.subs[j].start <= c.hi
            /\ \A e \in DOMAIN c.log :
                  c.log[e].kind # "invalid"
                      => c.log[e].lo >= c.lo /\ c.log[e].hi <= c.hi

\* The turns the while loop of scan_for_text_nonascii takes from the running
\* values s, at most `most` of them: the values before and after each turn and
\* whether the turn left the loop.
RECURSIVE NonAsciiTurns(_, _, _, _)
NonAsciiTurns(s, end, maxColumnCount, most) ==
    IF most = 0 THEN <<>>
    ELSE CHOOSE out \in
           { <<[before |-> s, after |-> t[1], left |-> t[2]]>>
                 \o (IF t[2] THEN <<>>
                     ELSE NonAsciiTurns(t[1], end, maxColumnCount, most - 1)) :
             t \in {nonascii_turn(s, end, maxColumnCount)} } : TRUE

\* The turns the Trivial/Complex loop of scan_text takes from the running
\* values c, at most `most` of them.
RECURSIVE ScanTextTurns(_, _, _, _)
ScanTextTurns(c, end, maxColumnCount, most) ==
    IF most = 0 THEN <<>>
    ELSE CHOOSE out \in
           { <<[before |-> c, after |-> t[1], left |-> t[2]]>>
                 \o (IF t[2] THEN <<>>
                     ELSE ScanTextTurns(t[1], end, maxColumnCount, most - 1)) :
             t \in {scan_text_turn(c, end, maxColumnCount)} } : TRUE

\* The turns of the Trivial/Complex loop of the finished call c, empty when
\* the call returned before the loop.
LoopTurns(c) ==
    CHOOSE out \in
      { IF c0.text = c.hi THEN <<>>
        ELSE ScanTextTurns(
                 [c0 EXCEPT !.nextState = IF is_complex(ByteAt(c0.text))
                                          THEN "Complex" ELSE "Trivial"],
                 c.hi, c.max, (2 * Len(B)) + 2) :
        c0 \in {scan_text_start(c.before, c.lo, c.hi, c.max)} } : TRUE

\* The scan_for_text_nonascii calls of the finished call c, each as the turns
\* of its loop: the call that resumes a pending sequence, if any, and the
\* call of each Complex turn.
InnerLoops(c) ==
    (IF c.before.utf8.expectedLength # 0
     THEN <<NonAsciiTurns(
                NonAsciiStart([c.before EXCEPT !.next = IF @ = NULL THEN c.lo ELSE @],
                              c.lo, <<>>),
                c.hi, c.max, Len(B) + 2)>>
     ELSE <<>>)
    \o [n \in 1 .. Cardinality({k \in DOMAIN LoopTurns(c) :
                                   /\ LoopTurns(c)[k].before.nextState = "Complex"
                                   /\ LoopTurns(c)[k].after.exit # "end"}) |->
          LET k == CHOOSE k \in DOMAIN LoopTurns(c) :
                       /\ LoopTurns(c)[k].before.nextState = "Complex"
                       /\ LoopTurns(c)[k].after.exit # "end"
                       /\ Cardinality({j \in 1 .. (k - 1) :
                              /\ LoopTurns(c)[j].before.nextState = "Complex"
                              /\ LoopTurns(c)[j].after.exit # "end"}) = n - 1
              b == LoopTurns(c)[k].before
          IN  NonAsciiTurns(NonAsciiStart(b.state, b.text, b.log),
                            c.hi, c.max - b.result.count, Len(B) + 2)]

\* C21: every scan_text call terminates: each turn of the Trivial/Complex
\* loop returns, leaves the loop or moves the text view forward, and the loop
\* is left within the turns the length of the input allows; each turn of the
\* loop of scan_for_text_nonascii consumes exactly one byte or leaves the
\* loop, and the loop is left after at most one turn per byte and one more.
C21_EveryTurnAdvances ==
    \A i \in DOMAIN calls :
        /\ \A turns \in {LoopTurns(calls[i])} :
              /\ \A k \in DOMAIN turns :
                    \/ turns[k].left
                    \/ turns[k].after.text > turns[k].before.text
                    \/ turns[k].after.state.next > turns[k].before.state.next
              /\ (turns # <<>> => turns[Len(turns)].left)
        /\ \A inner \in {InnerLoops(calls[i])} :
              \A n \in DOMAIN inner :
                  /\ \A k \in DOMAIN inner[n] :
                        \/ inner[n][k].left
                        \/ inner[n][k].after.input = inner[n][k].before.input + 1
                  /\ inner[n] # <<>>
                  /\ inner[n][Len(inner[n])].left

\* ------------------------------------------------------ the prescan's runs

Repeat(ch, n) == [i \in 1 .. n |-> ch]

\* The vector widths scan_for_text_ascii dispatches among.
SimdBitWidths == {128, 256, 512}

\* Prescanned slices: a run of printable bytes, then no, one, 16 or 32 equal
\* bytes that are a control byte, DEL or a byte of 0x80 and above, then
\* printable bytes again (none, or more than the widest vector holds).
AsciiInputs ==
    { Repeat(65, a) \o Repeat(x[1], x[2]) \o Repeat(66, c) :
        a \in 0 .. MaxPrefix,
        x \in {<<65, 0>>} \cup ({10, 127, 128} \X {1, 16, 32}),
        c \in {0, 65} }

AsciiLimits == {0, 20, 65, 200}

InitAscii ==
    /\ B \in AsciiInputs
    /\ state = FreshState
    /\ calls = <<>>
    /\ loader = Idle
    /\ ucd = Idle
    /\ ascii \in [limit : AsciiLimits,
                  result : {[w \in SimdBitWidths |-> NULL]},
                  loads : {[w \in SimdBitWidths |-> <<>>]}]

\* One kernel is run on the whole slice.
Prescan(w) ==
    /\ ascii # Idle
    /\ ascii.result[w] = NULL
    /\ ascii' = [ascii EXCEPT
                     !.result[w] = scan_for_text_ascii_simd(w, 0, Len(B), ascii.limit),
                     !.loads[w] = vector_loads(0, Min(Len(B), ascii.limit), w)]
    /\ UNCHANGED <<B, state, calls, loader, ucd>>

NextAscii == \E w \in SimdBitWidths : Prescan(w)

SpecAscii == InitAscii /\ [][NextAscii]_vars

\* -------------------------------------------------- the prescan's properties

\* The length of the longest prefix of B[from..end) whose bytes all lie in
\* 0x20..0x7E.
RECURSIVE PrintablePrefix(_, _)
PrintablePrefix(from, end) ==
    IF from < end /\ ByteAt(from) >= 32 /\ ByteAt(from) <= 126
    THEN 1 + PrintablePrefix(from + 1, end)
    ELSE 0

PrescanEnd == Min(Len(B), ascii.limit)

\* C6: the prescan returns the length of the longest prefix, no longer than
\* min(slice length, limit), whose bytes all lie in 0x20..0x7E.
C6_PrescanIsPrintablePrefix ==
    ascii # Idle =>
        \A w \in SimdBitWidths :
            ascii.result[w] # NULL => ascii.result[w] = PrintablePrefix(0, PrescanEnd)

\* C7: each of the 128-, 256- and 512-bit kernels returns the length the
\* scalar tail loop alone returns when run from the start of the slice.
C7_KernelsMatchScalarLoop ==
    ascii # Idle =>
        \A w \in SimdBitWidths :
            ascii.result[w] # NULL => ascii.result[w] = scalar_loop(0, PrescanEnd)

\* C7 witness: all three kernels have run on a slice in which a byte of 0x80
\* and above lies beyond the first 64 bytes and before the limit, so that
\* every kernel's vector loop advanced at least once before it met the byte.
C7_Witness ==
    /\ ascii # Idle
    /\ \A w \in SimdBitWidths : ascii.result[w] # NULL /\ ascii.result[w] >= 64
    /\ ascii.result[512] + 64 < PrescanEnd
    /\ ByteAt(ascii.result[512]) >= 128

\* C24: an iteration of the vector loop whose vector holds no control byte
\* and no byte of 0x80 and above advances input by the vector's width in
\* bytes, SimdBitWidth / 8: every load but a kernel's last is followed by a
\* load SimdBitWidth / 8 bytes further on, so no byte is loaded twice.
C24_AdvanceIsVectorWidth ==
    ascii # Idle =>
        \A w \in SimdBitWidths :
            \A i \in 1 .. (Len(ascii.loads[w]) - 1) :
                ascii.loads[w][i + 1] = ascii.loads[w][i] + (w \div 8)

\* ------------------------------------------------------------- UCD loader

\* codepoint_properties_loader::block_size, scaled down from the table's 256.
block_size == 2

\* The number of codepoints of the model's range, 0x110000 in the program.
CodepointCount == NumBlocks * block_size

\* The property records load() can leave in _codepoints: the default record of
\* an unassigned codepoint and two assigned ones.
Records ==
    { [general_category |-> "Unassigned", east_asian_width |-> "Neutral"],
      [general_category |-> "Other_Letter", east_asian_width |-> "Neutral"],
      [general_category |-> "Other_Letter", east_asian_width |-> "Wide"] }

\* _codepoints[codepoint] and the elements of the output vectors, which the
\* program indexes from 0.
At(v, i) == v[i + 1]

\* find(properties.begin(), properties.end(), record): the first index holding
\* the record, or Len(properties) for end().
RECURSIVE find(_, _, _)
find(properties, record, i) ==
    IF i = Len(properties) \/ At(properties, i) = record
    THEN i
    ELSE find(properties, record, i + 1)

\* is_same_block with its loop stopping one element early.
is_same_block_short(codepoints, a, b) ==
    \A i \in 0 .. (block_size - 2) : At(codepoints, a + i) = At(codepoints, b + i)

\* codepoint_properties_loader::is_same_block(a, b)
is_same_block(codepoints, a, b) ==
    \A i \in 0 .. (block_size - 1) : At(codepoints, a + i) = At(codepoints, b + i)

\* find_same_block with its scan starting at the second block.
RECURSIVE find_same_block_from(_, _, _)
find_same_block_from(codepoints, blockStart, otherBlockStart) ==
    IF ~(otherBlockStart < blockStart)
    THEN NULL
    ELSE IF is_same_block(codepoints, otherBlockStart, blockStart)
         THEN otherBlockStart \div block_size
         ELSE find_same_block_from(codepoints, blockStart, otherBlockStart + block_size)

find_same_block_skip_first(codepoints, blockStart) ==
    find_same_block_from(codepoints, blockStart, block_size)

\* codepoint_properties_loader::find_same_block(blockStart): the number of the
\* first earlier block equal to the block at blockStart, or NULL for nullopt.
find_same_block(codepoints, blockStart) ==
    find_same_block_from(codepoints, blockStart, 0)

\* get_or_create_index_to_property that appends without looking.
get_or_create_index_to_property_append(properties, record) ==
    [properties |-> Append(properties, record), index |-> Len(properties)]

\* get_or_create_index_to_property returning properties.size() for a new
\* record, without the - 1.
get_or_create_index_to_property_size(properties, record) ==
    LET i == find(properties, record, 0)
    IN  IF i # Len(properties)
        THEN [properties |-> properties, index |-> i]
        ELSE [properties |-> Append(properties, record), index |-> Len(properties) + 1]

\* codepoint_properties_loader::get_or_create_index_to_property(codepoint):
\* the properties vector it leaves and the index it returns.
get_or_create_index_to_property(properties, record) ==
    LET i == find(properties, record, 0)
    IN  IF i # Len(properties)
        THEN [properties |-> properties, index |-> i]
        ELSE [properties |-> Append(properties, record), index |-> Len(properties)]

\* codepoint_properties_table::operator[]: the two-stage lookup.
Lookup(out, codepoint) ==
    At(out.properties,
       At(out.stage2,
          (At(out.stage1, codepoint \div block_size) * block_size)
              + (codepoint % block_size)))

\* codepoint_properties_loader::verify_block(blockNumber): no mismatch thrown.
verify_block(l, blockNumber) ==
    \A codepoint \in (blockNumber * block_size) .. (((blockNumber + 1) * block_size) - 1) :
        At(l.codepoints, codepoint) = Lookup(l.output, codepoint)

\* codepoint_properties_loader::verify()
verify(l) ==
    \A blockStart \in 0 .. (CodepointCount - block_size) :
        verify_block(l, blockStart \div block_size)

\* The loader after its constructor and load(): _codepoints filled from the
\* UCD files, stage1 sized and zeroed, the loop of create_multistage_tables
\* before its first block.
InitLoader ==
    /\ B = <<>>
    /\ state = FreshState
    /\ calls = <<>>
    /\ ascii = Idle
    /\ ucd = Idle
    /\ loader \in
         [codepoints : [1 .. CodepointCount -> Records],
          output : {[stage1 |-> [i \in 1 .. NumBlocks |-> 0],
                     stage2 |-> <<>>, properties |-> <<>>]},
          pc : {"blocks"},
          blockStart : {0},
          codepoint : {0},
          stage2Index : {0},
          last : {[codepoint |-> NULL, index |-> NULL]},
          verified : {FALSE}]

\* One turn of the loop of create_multistage_tables: the call of
\* get_or_create_index_to_stage2_block up to its return for a block seen
\* before, or up to the loop that fills a new block.
StartBlock ==
    /\ loader # Idle
    /\ loader.pc = "blocks"
    /\ loader.blockStart <= CodepointCount - block_size
    /\ LET other_block == find_same_block(loader.codepoints, loader.blockStart)
       IN  IF other_block # NULL
           THEN loader' = [loader EXCEPT
                    !.output.stage1[(loader.blockStart \div block_size) + 1] =
                        At(loader.output.stage1, other_block),
                    !.blockStart = @ + block_size]
           ELSE loader' = [loader EXCEPT
                    !.pc = "fill",
                    !.stage2Index = Len(loader.output.stage2) \div block_size,
                    !.codepoint = loader.blockStart]
    /\ UNCHANGED <<B, state, calls, ascii, ucd>>

\* One turn of the loop that fills a new block: a call of
\* get_or_create_index_to_property and the emplace_back of its result; after
\* the block's last codepoint, the return of the block's index into stage1.
FillBlock ==
    /\ loader # Idle
    /\ loader.pc = "fill"
    /\ LET r == get_or_create_index_to_property(loader.output.properties,
                                                At(loader.codepoints, loader.codepoint))
           filled == loader.codepoint + 1 = loader.blockStart + block_size
       IN  loader' = [loader EXCEPT
               !.output.properties = r.properties,
               !.output.stage2 = Append(@, r.index),
               !.last = [codepoint |-> loader.codepoint, index |-> r.index],
               !.codepoint = @ + 1,
               !.output.stage1[(loader.blockStart \div block_size) + 1] =
                   IF filled THEN loader.stage2Index ELSE @,
               !.blockStart = IF filled THEN @ + block_size ELSE @,
               !.pc = IF filled THEN "blocks" ELSE @]
    /\ UNCHANGED <<B, state, calls, ascii, ucd>>

\* create_multistage_tables has left its loop: load_from_directory verifies
\* and returns _output.
ReturnTable ==
    /\ loader # Idle
    /\ loader.pc = "blocks"
    /\ ~(loader.blockStart <= CodepointCount - block_size)
    /\ loader' = [loader EXCEPT !.pc = "done", !.verified = verify(loader)]
    /\ UNCHANGED <<B, state, calls, ascii, ucd>>

NextLoader == StartBlock \/ FillBlock \/ ReturnTable

SpecLoader == InitLoader /\ [][NextLoader]_vars

\* ------------------------------------------------------- UCD loader: load()

\* A line of a UCD file is a sequence of items: single characters (digits,
\* the letters of a hexadecimal number, ".", ";", "#", a blank) and, for
\* brevity, whole words of letters and underscores such as "Emoji_Modifier".
HexDigits ==
    <<"0", "1", "2", "3", "4", "5", "6", "7", "8", "9", "A", "B", "C", "D", "E", "F">>

DecimalDigits == {HexDigits[i] : i \in 1 .. 10}

\* [0-9A-F]
IsUpperHex(x) == \E i \in DOMAIN HexDigits : HexDigits[i] = x

\* \s
IsSpace(x) == x = " "

\* [A-Za-z_]: every item that is not a digit, a blank or punctuation.
IsNameChar(x) == x \notin (DecimalDigits \cup {" ", ".", ";", "#"})

\* Whether the item belongs to the character class.
InClass(class, x) ==
    CASE class = "[0-9A-F]" -> IsUpperHex(x)
      [] class = "\\s" -> IsSpace(x)
      [] OTHER -> IsNameChar(x)

\* The index after the longest run of items of the class that starts at index
\* i of the line (i itself if there is none): a greedy X* of the regex.
RunEnd(line, i, class) ==
    CHOOSE j \in i .. (Len(line) + 1) :
        /\ \A k \in i .. (j - 1) : InClass(class, line[k])
        /\ (j = Len(line) + 1 \/ ~InClass(class, line[j]))

\* stoul(digits, nullptr, 16)
RECURSIVE stoul16(_)
stoul16(digits) ==
    IF digits = <<>> THEN 0
    ELSE (stoul16(SubSeq(digits, 1, Len(digits) - 1)) * 16)
             + ((CHOOSE i \in DOMAIN HexDigits : HexDigits[i] = digits[Len(digits)]) - 1)

NoMatch == [matched |-> FALSE]

\* The tail `\s*;\s*([A-Za-z_]+)` of both patterns, tried at index i.
MatchValue(line, i) ==
    LET semi == RunEnd(line, i, "\\s")
    IN  IF ~(semi <= Len(line) /\ line[semi] = ";")
        THEN NoMatch
        ELSE LET v == RunEnd(line, semi + 1, "\\s")
                 n == RunEnd(line, v, "[A-Za-z_]")
             IN  IF n = v THEN NoMatch
                 ELSE [matched |-> TRUE, value |-> SubSeq(line, v, n - 1)]

\* regex_search(line, sm, singleCodepointPattern) with
\* ^([0-9A-F]+)\s*;\s*([A-Za-z_]+)
singleCodepointPattern(line) ==
    LET h == RunEnd(line, 1, "[0-9A-F]")
    IN  IF h = 1 THEN NoMatch
        ELSE LET m == MatchValue(line, h)
             IN  IF ~m.matched THEN NoMatch
                 ELSE [matched |-> TRUE,
                       first |-> stoul16(SubSeq(line, 1, h - 1)),
                       last |-> stoul16(SubSeq(line, 1, h - 1)),
                       value |-> m.value]

\* regex_search(line, sm, codepointRangePattern) with
\* ^([0-9A-F]+)\.\.([0-9A-F]+)\s*;\s*([A-Za-z_]+)
codepointRangePattern(line) ==
    LET h == RunEnd(line, 1, "[0-9A-F]")
    IN  IF h = 1 \/ ~(h + 1 <= Len(line) /\ line[h] = "." /\ line[h + 1] = ".")
        THEN NoMatch
        ELSE LET g == RunEnd(line, h + 2, "[0-9A-F]")
             IN  IF g = h + 2 THEN NoMatch
                 ELSE LET m == MatchValue(line, g)
                      IN  IF ~m.matched THEN NoMatch
                          ELSE [matched |-> TRUE,
                                first |-> stoul16(SubSeq(line, 1, h - 1)),
                                last |-> stoul16(SubSeq(line, h + 2, g - 1)),
                                value |-> m.value]

\* What the loop body of process_properties makes of one line: the range of
\* codepoints the callback is called for and the value it is called with, or
\* no match, in which case the line is passed over.
MatchLine(line) ==
    IF singleCodepointPattern(line).matched
    THEN singleCodepointPattern(line)
    ELSE codepointRangePattern(line)

\* The codepoints whose records the model of load() follows: '#', 'A',
\* U+200D, U+1F1E6 and U+1F3FB. The program holds a record for every
\* codepoint below 0x110000.
Universe == {35, 65, 8205, 127462, 127995}

\* codepoint_properties {}: the record of a codepoint no file mentions.
DefaultProperties ==
    [script |-> "Unknown",
     general_category |-> "Unassigned",
     grapheme_cluster_break |-> "Other",
     east_asian_width |-> "Neutral",
     flags |-> {},
     emoji_segmentation_category |-> "Invalid"]

\* An optional that holds no value.
nullopt == "nullopt"

\* The enumerator the mappings array pairs with the name, or nullopt when the
\* loop over the array finds none. (Of each array the model keeps two pairs.)
MappedTo(pairs, value) ==
    IF Len(value) = 1 /\ \E m \in pairs : m[1] = value[1]
    THEN (CHOOSE m \in pairs : m[1] = value[1])[2]
    ELSE nullopt

make_general_category(value) ==
    MappedTo({<<"Lu", "Uppercase_Letter">>, <<"Po", "Other_Punctuation">>}, value)

make_script(value) ==
    MappedTo({<<"Latin", "Latin">>, <<"Common", "Common">>}, value)

make_width(value) ==
    MappedTo({<<"N", "Neutral">>, <<"W", "Wide">>}, value)

make_gb(value) ==
    MappedTo({<<"Regional_Indicator", "Regional_Indicator">>, <<"ZWJ", "ZWJ">>}, value)

\* The files load() reads, in its order.
Files ==
    <<"Scripts.txt", "DerivedCoreProperties.txt", "extracted/DerivedGeneralCategory.txt",
      "auxiliary/GraphemeBreakProperty.txt", "EastAsianWidth.txt", "emoji/emoji-data.txt">>

\* The names the mappings arrays of load() hold for a file.
mappings(file) ==
    CASE file = 2 -> {"Grapheme_Extend"}
      [] file = 6 -> {"Emoji", "Emoji_Component", "Emoji_Modifier", "Emoji_Modifier_Base",
                      "Emoji_Presentation", "Extended_Pictographic"}
      [] OTHER -> {}

\* The callback load() passes to process_properties for the file, applied to
\* one codepoint's record: the record it leaves, or threw when
\* optional::value() finds no value.
callback(file, props, value) ==
    CASE file = 1 ->
           [threw |-> FALSE,
            props |-> [props EXCEPT !.script =
                          IF make_script(value) # nullopt THEN make_script(value)
                          ELSE "Invalid"]]
      [] file = 3 ->
           IF make_general_category(value) = nullopt
           THEN [threw |-> TRUE, props |-> props]
           ELSE [threw |-> FALSE,
                 props |-> [props EXCEPT !.general_category = make_general_category(value)]]
      [] file = 4 ->
           IF make_gb(value) = nullopt
           THEN [threw |-> TRUE, props |-> props]
           ELSE [threw |-> FALSE,
                 props |-> [props EXCEPT !.grapheme_cluster_break = make_gb(value)]]
      [] file = 5 ->
           IF make_width(value) = nullopt
           THEN [threw |-> TRUE, props |-> props]
           ELSE [threw |-> FALSE,
                 props |-> [props EXCEPT !.east_asian_width = make_width(value)]]
      [] OTHER ->
           [threw |-> FALSE,
            props |-> IF Len(value) = 1 /\ value[1] \in mappings(file)
                      THEN [props EXCEPT !.flags = @ \cup {value[1]}]
                      ELSE props]

\* The while loop of process_properties over the lines of an opened file:
\* the records it leaves, and whether a callback threw. A callback throws
\* for a value whatever the codepoint, so the first call of a line decides.
RECURSIVE process_lines(_, _, _)
process_lines(file, codepoints, lines) ==
    IF lines = <<>>
    THEN [threw |-> FALSE, codepoints |-> codepoints]
    ELSE CHOOSE out \in
           { IF ~m.matched
             THEN process_lines(file, codepoints, Tail(lines))
             ELSE IF m.first <= m.last
                     /\ callback(file, DefaultProperties, m.value).threw
             THEN [threw |-> TRUE, codepoints |-> codepoints]
             ELSE process_lines(
                      file,
                      [cp \in Universe |->
                          IF m.first <= cp /\ cp <= m.last
                          THEN callback(file, codepoints[cp], m.value).props
                          ELSE codepoints[cp]],
                      Tail(lines)) :
             m \in {MatchLine(Head(lines))} } : TRUE

\* process_properties(filePathSuffix, callback): a file that cannot be opened
\* is not good(), and the loop is not entered.
process_properties(file, codepoints, opens, lines) ==
    IF ~opens
    THEN [threw |-> FALSE, codepoints |-> codepoints]
    ELSE CHOOSE out \in
           { process_lines(file, c, lines) : c \in {codepoints} } : TRUE

\* toEmojiSegmentationCategory with the Emoji_Modifier test in front of the
\* Emoji_Modifier_Base test.
toEmojiSegmentationCategory_swapped(codepoint, props) ==
    CASE codepoint = 8419 -> "CombiningEnclosingKeyCap"
      [] codepoint = 8416 -> "CombiningEnclosingCircleBackslash"
      [] codepoint = 8205 -> "ZWJ"
      [] codepoint = 65038 -> "VS15"
      [] codepoint = 65039 -> "VS16"
      [] codepoint = 127988 -> "TagBase"
      [] InRange(codepoint, 917552, 917561) \/ InRange(codepoint, 917601, 917626) ->
           "TagSequence"
      [] codepoint = 917631 -> "TagTerm"
      [] "Emoji_Modifier" \in props.flags -> "EmojiModifier"
      [] "Emoji_Modifier_Base" \in props.flags -> "EmojiModifierBase"
      [] props.grapheme_cluster_break = "Regional_Indicator" -> "RegionalIndicator"
      [] InRange(codepoint, 48, 57) \/ codepoint = 35 \/ codepoint = 42 -> "KeyCapBase"
      [] "Emoji_Presentation" \in props.flags -> "EmojiEmojiPresentation"
      [] "Emoji" \in props.flags -> "EmojiTextPresentation"
      [] OTHER -> "Invalid"

\* toEmojiSegmentationCategory(codepoint, props): the if chain, in its order.
toEmojiSegmentationCategory(codepoint, props) ==
    IF codepoint = 8419 THEN "CombiningEnclosingKeyCap"
    ELSE IF codepoint = 8416 THEN "CombiningEnclosingCircleBackslash"
    ELSE IF codepoint = 8205 THEN "ZWJ"
    ELSE IF codepoint = 65038 THEN "VS15"
    ELSE IF codepoint = 65039 THEN "VS16"
    ELSE IF codepoint = 127988 THEN "TagBase"
    ELSE IF (codepoint >= 917552 /\ codepoint <= 917561)
            \/ (codepoint >= 917601 /\ codepoint <= 917626) THEN "TagSequence"
    ELSE IF codepoint = 917631 THEN "TagTerm"
    ELSE IF "Emoji_Modifier_Base" \in props.flags THEN "EmojiModifierBase"
    ELSE IF "Emoji_Modifier" \in props.flags THEN "EmojiModifier"
    ELSE IF props.grapheme_cluster_break = "Regional_Indicator" THEN "RegionalIndicator"
    ELSE IF (48 <= codepoint /\ codepoint <= 57) \/ codepoint = 35 \/ codepoint = 42
         THEN "KeyCapBase"
    ELSE IF "Emoji_Presentation" \in props.flags THEN "EmojiEmojiPresentation"
    ELSE IF "Emoji" \in props.flags /\ "Emoji_Presentation" \notin props.flags
         THEN "EmojiTextPresentation"
    ELSE IF "Emoji" \in props.flags THEN "Emoji"
    ELSE "Invalid"

\* The assignments load() makes before it reads emoji-data.txt.
PreAssigned(codepoints) ==
    [cp \in Universe |->
        [codepoints[cp] EXCEPT !.emoji_segmentation_category =
            CASE cp = 8419 -> "CombiningEnclosingKeyCap"
              [] cp = 8416 -> "CombiningEnclosingCircleBackslash"
              [] cp = 8205 -> "ZWJ"
              [] cp = 65038 -> "VS15"
              [] cp = 65039 -> "VS16"
              [] cp = 127988 -> "TagBase"
              [] InRange(cp, 917552, 917561) \/ InRange(cp, 917601, 917626) -> "TagSequence"
              [] cp = 917631 -> "TagTerm"
              [] InRange(cp, 48, 57) \/ cp = 35 \/ cp = 42 -> "KeyCapBase"
              [] OTHER -> @]]

\* The loop of load() that assigns every codepoint its category.
Assigned(codepoints) ==
    [cp \in Universe |->
        [codepoints[cp] EXCEPT !.emoji_segmentation_category =
            toEmojiSegmentationCategory(cp, codepoints[cp])]]

\* One step of load(): the process_properties call for one of the first five
\* files; for emoji-data.txt, the assignments before it, its
\* process_properties call and the loop after it.
load_step(file, codepoints, opens, lines) ==
    IF file < 6
    THEN process_properties(file, codepoints, opens, lines)
    ELSE CHOOSE out \in
           { [threw |-> r.threw, codepoints |-> Assigned(r.codepoints)] :
             r \in {process_properties(file, PreAssigned(codepoints), opens, lines)} } : TRUE

\* ------------------------------------------------------- the runs of load()

\* "HEX ; NAME" and "HEX..HEX ; NAME"
SingleLine(hex, name) == hex \o <<" ", ";", " ", name>>
RangeLine(first, last, name) == first \o <<".", ".">> \o last \o <<" ", ";", " ", name>>

\* What the first five files hold, when they can be opened: lines with names
\* the loader knows and names it does not, a comment and an empty line, a
\* line without its semicolon, a range, a line in lower-case hex.
FileContents(file) ==
    CASE file = 1 ->
           { <<SingleLine(<<"4", "1">>, "Latin")>>,
             <<SingleLine(<<"4", "1">>, "Latin"), SingleLine(<<"4", "1">>, "Xyzzy")>>,
             <<<<"4", "1", " ", "Latin">>>> }
      [] file = 2 ->
           { <<SingleLine(<<"2", "0", "0", "D">>, "Grapheme_Extend")>>,
             <<SingleLine(<<"2", "0", "0", "D">>, "Alphabetic")>>,
             <<<<"#", " ", "Comment">>, <<>>>> }
      [] file = 3 ->
           { <<RangeLine(<<"2", "3">>, <<"4", "1">>, "Po")>>,
             <<SingleLine(<<"4", "1">>, "Lu")>>,
             <<SingleLine(<<"4", "1">>, "Zz")>> }
      [] file = 4 ->
           { <<SingleLine(<<"1", "F", "1", "E", "6">>, "Regional_Indicator")>>,
             <<SingleLine(<<"2", "3">>, "Regional_Indicator")>>,
             <<SingleLine(<<"1", "f", "1", "e", "6">>, "Regional_Indicator")>>,
             <<SingleLine(<<"2", "0", "0", "D">>, "ZWJ")>>,
             <<SingleLine(<<"4", "1">>, "XX")>> }
      [] OTHER ->
           { <<SingleLine(<<"1", "F", "3", "F", "B">>, "W")>>,
             <<SingleLine(<<"1", "F", "3", "F", "B">>, "Q")>> }

\* The lines emoji-data.txt is made of.
EmojiLines ==
    { SingleLine(<<"2", "3">>, "Emoji_Presentation"),
      SingleLine(<<"1", "F", "3", "F", "B">>, "Emoji_Modifier"),
      SingleLine(<<"1", "F", "3", "F", "B">>, "Emoji_Modifier_Base"),
      SingleLine(<<"1", "F", "1", "E", "6">>, "Emoji_Modifier"),
      SingleLine(<<"2", "0", "0", "D">>, "Emoji_Modifier_Base"),
      RangeLine(<<"2", "3">>, <<"4", "1">>, "Emoji") }

\* A file as load() finds it: it cannot be opened, or it holds lines.
FileInputs(file) ==
    {[opens |-> FALSE, lines |-> <<>>]}
        \cup {[opens |-> TRUE, lines |-> l] :
                l \in IF file < 6 THEN FileContents(file)
                      ELSE UNION {[1 .. n -> EmojiLines] : n \in 0 .. MaxLines}}

\* A hexadecimal letter in upper case.
ToUpper(x) ==
    CASE x = "a" -> "A" [] x = "b" -> "B" [] x = "c" -> "C"
      [] x = "d" -> "D" [] x = "e" -> "E" [] x = "f" -> "F" [] OTHER -> x

\* A line of one of the two forms, its hexadecimal digits in either case.
WellFormed(line) == MatchLine([i \in DOMAIN line |-> ToUpper(line[i])]).matched

\* A line that is not empty, not a comment and of neither form.
Malformed(line) == line # <<>> /\ line[1] # "#" /\ ~WellFormed(line)

\* The loader after its constructor: every record is the default record and
\* load() is about to read its first file. Beside _codepoints the state
\* notes the records before the last step (before), the file of the last
\* step (last), whether a file could not be opened and whether a malformed
\* line was passed over.
InitLoad ==
    /\ B = <<>>
    /\ state = FreshState
    /\ calls = <<>>
    /\ ascii = Idle
    /\ loader = Idle
    /\ ucd = [next |-> 1,
              status |-> "loading",
              codepoints |-> [cp \in Universe |-> DefaultProperties],
              before |-> [cp \in Universe |-> DefaultProperties],
              last |-> [file |-> 0, opens |-> TRUE, lines |-> <<>>],
              ioError |-> FALSE,
              malformed |-> FALSE]

\* load() reads its next file; an exception thrown by a callback leaves
\* load_from_directory.
LoadFile(f) ==
    /\ ucd # Idle
    /\ ucd.status = "loading"
    /\ ucd.next <= 6
    /\ \E r \in {load_step(ucd.next, ucd.codepoints, f.opens, f.lines)} :
          ucd' = [next |-> ucd.next + 1,
                  status |-> IF r.threw THEN "failed" ELSE "loading",
                  codepoints |-> r.codepoints,
                  before |-> ucd.codepoints,
                  last |-> [file |-> ucd.next, opens |-> f.opens, lines |-> f.lines],
                  ioError |-> ucd.ioError \/ ~f.opens,
                  malformed |-> ucd.malformed
                                   \/ \E i \in DOMAIN f.lines : Malformed(f.lines[i])]
    /\ UNCHANGED <<B, state, calls, ascii, loader>>

\* load() has returned: load_from_directory builds the tables from
\* _codepoints, verifies them and returns them.
ReturnLoaded ==
    /\ ucd # Idle
    /\ ucd.status = "loading"
    /\ ucd.next = 7
    /\ ucd' = [ucd EXCEPT !.status = "returned"]
    /\ UNCHANGED <<B, state, calls, ascii, loader>>

NextLoad ==
    \/ \E f \in (IF ucd # Idle /\ ucd.next <= 6 THEN FileInputs(ucd.next) ELSE {}) :
          LoadFile(f)
    \/ ReturnLoaded

SpecLoad == InitLoad /\ [][NextLoad]_vars

\* ------------------------------------------------- the properties of load()

\* The rule list of emoji_segmentation_category, top to bottom.
CategoryRules(cp, props) ==
    << [when |-> cp = 8419, category |-> "CombiningEnclosingKeyCap"],
       [when |-> cp = 8416, category |-> "CombiningEnclosingCircleBackslash"],
       [when |-> cp = 8205, category |-> "ZWJ"],
       [when |-> cp = 65038, category |-> "VS15"],
       [when |-> cp = 65039, category |-> "VS16"],
       [when |-> cp = 127988, category |-> "TagBase"],
       [when |-> cp \in 917552 .. 917561, category |-> "TagSequence"],
       [when |-> cp \in 917601 .. 917626, category |-> "TagSequence"],
       [when |-> cp = 917631, category |-> "TagTerm"],
       [when |-> "Emoji_Modifier_Base" \in props.flags, category |-> "EmojiModifierBase"],
       [when |-> "Emoji_Modifier" \in props.flags, category |-> "EmojiModifier"],
       [when |-> props.grapheme_cluster_break = "Regional_Indicator",
        category |-> "RegionalIndicator"],
       [when |-> cp \in (48 .. 57) \cup {35, 42}, category |-> "KeyCapBase"],
       [when |-> "Emoji_Presentation" \in props.flags, category |-> "EmojiEmojiPresentation"],
       [when |-> "Emoji" \in props.flags /\ "Emoji_Presentation" \notin props.flags,
        category |-> "EmojiTextPresentation"],
       [when |-> "Emoji" \in props.flags, category |-> "Emoji"],
       [when |-> TRUE, category |-> "Invalid"] >>

\* The category of the first rule that matches.
FirstMatch(rules) ==
    rules[CHOOSE i \in DOMAIN rules :
              rules[i].when /\ \A j \in 1 .. (i - 1) : ~rules[j].when].category

LoadDone == ucd # Idle /\ ucd.next = 7 /\ ucd.status # "failed"

\* C17: after load() the emoji_segmentation_category stored for every
\* codepoint is the category of the first rule of the list that matches the
\* codepoint and its final record, whatever was assigned before
\* emoji-data.txt was read.
C17_CategoryIsFirstMatchingRule ==
    LoadDone =>
        \A cp \in Universe :
            ucd.codepoints[cp].emoji_segmentation_category
                = FirstMatch(CategoryRules(cp, ucd.codepoints[cp]))

\* C17 witness: load() has finished with U+1F3FB carrying both Emoji_Modifier
\* and Emoji_Modifier_Base and stored as EmojiModifierBase, and with '#',
\* which was pre-assigned KeyCapBase, stored as RegionalIndicator.
C17_Witness ==
    /\ LoadDone
    /\ {"Emoji_Modifier", "Emoji_Modifier_Base"} \subseteq ucd.codepoints[127995].flags
    /\ ucd.codepoints[127995].emoji_segmentation_category = "EmojiModifierBase"
    /\ ucd.codepoints[35].grapheme_cluster_break = "Regional_Indicator"
    /\ ucd.codepoints[35].emoji_segmentation_category = "RegionalIndicator"

\* C18: load_from_directory returns no table when one of the six files could
\* not be opened.
C18_IoErrorIsFatal ==
    (ucd # Idle /\ ucd.ioError) => ucd.status # "returned"

\* C19: load_from_directory returns no table when a file held a line that is
\* not empty, not a comment and of neither form.
C19_MalformedLineIsFatal ==
    (ucd # Idle /\ ucd.malformed) => ucd.status # "returned"

\* Whether the file's reader recognises the property name.
Recognised(file, value) ==
    CASE file = 1 -> make_script(value) # nullopt
      [] file = 3 -> make_general_category(value) # nullopt
      [] file = 4 -> make_gb(value) # nullopt
      [] file = 5 -> make_width(value) # nullopt
      [] OTHER -> Len(value) = 1 /\ value[1] \in mappings(file)

\* A well-formed line whose property name the file's reader does not know.
UnknownName(file, line) ==
    /\ WellFormed(line)
    /\ ~Recognised(file, MatchLine([i \in DOMAIN line |-> ToUpper(line[i])]).value)

\* The lines without those of an unknown property name.
RECURSIVE WithoutUnknown(_, _)
WithoutUnknown(file, lines) ==
    IF lines = <<>> THEN <<>>
    ELSE (IF UnknownName(file, Head(lines)) THEN <<>> ELSE <<Head(lines)>>)
             \o WithoutUnknown(file, Tail(lines))

\* C20: a file with well-formed lines of an unknown property name is read
\* without error and leaves the records as the same file without those lines
\* leaves them.
C20_UnknownNameIsIgnored ==
    (/\ ucd # Idle
     /\ ucd.last.file >= 1
     /\ ucd.last.opens
     /\ \E i \in DOMAIN ucd.last.lines : UnknownName(ucd.last.file, ucd.last.lines[i]))
        => /\ ucd.status # "failed"
           /\ ucd.codepoints
                 = load_step(ucd.last.file, ucd.before, TRUE,
                             WithoutUnknown(ucd.last.file, ucd.last.lines)).codepoints

\* -------------------------------------------------- the loader's properties

\* The block_size-aligned block number n of stage2.
Stage2Block(out, n) == [i \in 0 .. (block_size - 1) |-> At(out.stage2, (n * block_size) + i)]

\* The block of _codepoints that starts at block number n.
CodepointBlock(l, n) == [i \in 0 .. (block_size - 1) |-> At(l.codepoints, (n * block_size) + i)]

LoaderDone == loader # Idle /\ loader.pc = "done"

\* C8: after create_multistage_tables the two-stage lookup of every codepoint
\* gives the record _codepoints holds for it, and verify() finds no mismatch.
C8_LookupMatchesCodepoints ==
    LoaderDone =>
        /\ loader.verified
        /\ \A cp \in 0 .. (CodepointCount - 1) :
              Lookup(loader.output, cp) = At(loader.codepoints, cp)

\* C8 witness: a finished table in which two blocks share one stage2 block
\* and a third block does not.
C8_Witness ==
    /\ LoaderDone
    /\ \E m, n \in 0 .. (NumBlocks - 1) :
          m # n /\ At(loader.output.stage1, m) = At(loader.output.stage1, n)
    /\ \E m, n \in 0 .. (NumBlocks - 1) :
          At(loader.output.stage1, m) # At(loader.output.stage1, n)
    /\ Len(loader.output.properties) >= 2

\* C9: the emitted stage2 holds no two equal blocks, and two codepoint blocks
\* with equal records have the same stage1 entry.
C9_NoDuplicateStage2Blocks ==
    LoaderDone =>
        /\ \A m, n \in 0 .. ((Len(loader.output.stage2) \div block_size) - 1) :
              m # n => Stage2Block(loader.output, m) # Stage2Block(loader.output, n)
        /\ \A m, n \in 0 .. (NumBlocks - 1) :
              CodepointBlock(loader, m) = CodepointBlock(loader, n)
                  => At(loader.output.stage1, m) = At(loader.output.stage1, n)

\* C9 witness: a finished table with two stage2 blocks, built from a range in
\* which the first block occurs again after a different one.
C9_Witness ==
    /\ LoaderDone
    /\ Len(loader.output.stage2) = 2 * block_size
    /\ CodepointBlock(loader, 0) # CodepointBlock(loader, 1)
    /\ CodepointBlock(loader, 0) = CodepointBlock(loader, 2)

\* C10: after every call of get_or_create_index_to_property the properties
\* array holds no two equal records and the returned index refers to the
\* record of the call's codepoint.
C10_PropertiesUnique ==
    (loader # Idle /\ loader.last.codepoint # NULL) =>
        /\ \A i, j \in 1 .. Len(loader.output.properties) :
              i # j => loader.output.properties[i] # loader.output.properties[j]
        /\ At(loader.output.properties, loader.last.index)
              = At(loader.codepoints, loader.last.codepoint)

\* C10 witness: a call has just returned the index of a record that an
\* earlier codepoint put into the array, with another record after it.
C10_Witness ==
    /\ loader # Idle
    /\ loader.last.codepoint # NULL
    /\ loader.last.index + 1 < Len(loader.output.properties)
    /\ loader.pc = "fill"

\* C22: in the table the loader returns, stage1 has one entry per block of
\* the codepoint range (0x110000 / block_size in the program), the length of
\* stage2 is a multiple of block_size, every stage1 entry is the number of a
\* block of stage2 and every stage2 entry is an index into properties. The
\* same holds between any two turns of the loop of create_multistage_tables
\* for the stage1 entries assigned so far; in the returned table these are
\* all of them.
C22_TableShape ==
    (loader # Idle /\ loader.pc \in {"blocks", "done"}) =>
        /\ (loader.pc = "done" => loader.blockStart = CodepointCount)
        /\ Len(loader.output.stage1) = CodepointCount \div block_size
        /\ Len(loader.output.stage2) % block_size = 0
        /\ \A n \in 0 .. ((loader.blockStart \div block_size) - 1) :
              /\ At(loader.output.stage1, n) >= 0
              /\ At(loader.output.stage1, n) < Len(loader.output.stage2) \div block_size
        /\ \A i \in 0 .. (Len(loader.output.stage2) - 1) :
              /\ At(loader.output.stage2, i) >= 0
              /\ At(loader.output.stage2, i) < Len(loader.output.properties)

\* C22 witness: a returned table in which every block of the range got a
\* stage2 block of its own and the last stage2 entry is the last record.
C22_Witness ==
    /\ LoaderDone
    /\ Len(loader.output.stage2) = CodepointCount
    /\ At(loader.output.stage1, NumBlocks - 1) = NumBlocks - 1
    /\ Len(loader.output.properties) >= 2
    /\ At(loader.output.stage2, CodepointCount - 1) = Len(loader.output.properties) - 1

====
